---- MODULE Spec2Model ----
(***************************************************************************)
(* Model of the compound-to-pathway resolution pipeline of egabal/mbryg:   *)
(*   - get_compound_pathways.py : the flat-record parser (SpecParser)      *)
(*   - mbryg.py                 : catalog reader, pathway resolver and     *)
(*                                join & emit loop (SpecMbryg)             *)
(* Text is modelled as sequences of one-character strings so that the      *)
(* regular expressions, strip and split of the source are computed.        *)
(***************************************************************************)
EXTENDS Integers, Sequences, FiniteSets, TLC

VARIABLES
    \* ---- get_compound_pathways.py main ----
    lines,                \* the raw lines of args.file consumed so far
    compound_to_pathway,  \* defaultdict(list) in insertion order: seq of [compound, pathways]
    cur_compound,         \* current compound id ("" is <<>>)
    in_pathways,          \* pathway-block flag
    ppc,                  \* "read", "print", "done", "exit" (sys.exit), "error" (AssertionError)
    stdout,               \* the triples printed so far
    \* ---- mbryg.py main ----
    upstream,             \* the catalog behind API_URL: pages [results, next], locator k is page k
    to_stdout,            \* args.outfile is sys.stdout (no -o given)
    url,                  \* locator of the page to fetch, 0 when empty
    fetches,              \* locators passed to requests.get, in order
    results,              \* accumulated records
    fieldnames,           \* column set of the DictWriter
    sink,                 \* what has been written to the args.outfile stream, in order
    console,              \* what print() wrote when args.outfile is not sys.stdout
    i,                    \* position in "for result in results"
    result,               \* the dict of the current record, with the three pathway columns
    kegg_id,              \* normalised identifier of the current record
    pathways,             \* stage-1 mapping in iteration order: seq of [compound, ids]
    path_pos,             \* position in the nested loops over pathways.items() and pathways_ids
    calls,                \* external pathway lookups issued, in order
    mpc,                  \* "start", "fetch", "check", "for", "stage1", "stage2", "done", "exit", "error"
    err                   \* cause of an "exit" or "error"

pvars == <<lines, compound_to_pathway, cur_compound, in_pathways, ppc, stdout>>
mvars == <<upstream, to_stdout, url, fetches, results, fieldnames, sink, console, i,
           result, kegg_id, pathways, path_pos, calls, mpc, err>>
vars == <<pvars, mvars>>

\* ------------------------------------------------------------------
\* Bounds
MaxLines == 5
MaxFetches == 3
MaxRecs == 2

\* ------------------------------------------------------------------
\* Characters and text
Space == {" ", "\t", "\n"}
Upper == {"A", "B", "C", "D", "E", "F", "G", "H", "I", "J", "K", "L", "M",
          "N", "O", "P", "Q", "R", "S", "T", "U", "V", "W", "X", "Y", "Z"}
Digit == {"0", "1", "2", "3", "4", "5", "6", "7", "8", "9"}

Drop(s, n) == SubSeq(s, n + 1, Len(s))
Take(s, n) == SubSeq(s, 1, n)

\* number of leading characters of s that belong to class
RECURSIVE RunLen(_, _)
RunLen(s, class) ==
    IF s # <<>> /\ Head(s) \in class THEN 1 + RunLen(Tail(s), class) ELSE 0

\* number of leading characters of s that do not belong to class
RECURSIVE RunLenNot(_, _)
RunLenNot(s, class) ==
    IF s # <<>> /\ Head(s) \notin class THEN 1 + RunLenNot(Tail(s), class) ELSE 0

\* str.rstrip()
RECURSIVE rstrip(_)
rstrip(s) ==
    IF s # <<>> /\ s[Len(s)] \in Space THEN rstrip(Take(s, Len(s) - 1)) ELSE s

\* str.strip()
strip(s) == LET r == rstrip(s) IN Drop(r, RunLen(r, Space))

\* str.startswith(prefix)
startswith(s, prefix) == Len(s) >= Len(prefix) /\ Take(s, Len(prefix)) = prefix

\* re.split(r"\s+", s, maxsplit): maxsplit >= 1 in every call of the source
RECURSIVE re_split(_, _)
re_split(s, maxsplit) ==
    LET n == RunLenNot(s, Space)
    IN  IF maxsplit = 0 \/ n = Len(s)
        THEN <<s>>
        ELSE <<Take(s, n)>> \o
             re_split(Drop(s, n + RunLen(Drop(s, n), Space)), maxsplit - 1)

ENTRY_ == <<"E", "N", "T", "R", "Y">>
PATHWAY_ == <<"P", "A", "T", "H", "W", "A", "Y">>
TERMINATOR == <<"/", "/", "/">>

\* entry_re = ^ENTRY\s+(C\d+) ; the value is group(1), or <<>> when there is no match
entry_re(line) ==
    IF ~startswith(line, ENTRY_) THEN <<>>
    ELSE LET a  == Drop(line, Len(ENTRY_))
             ws == RunLen(a, Space)
             b  == Drop(a, ws)
         IN  IF ws >= 1 /\ b # <<>> /\ Head(b) = "C" /\ RunLen(Tail(b), Digit) >= 1
             THEN Take(b, 1 + RunLen(Tail(b), Digit))
             ELSE <<>>

\* re.search(r"^[A-Z]+\s+", line)
section_re(line) ==
    LET u == RunLen(line, Upper)
    IN  u >= 1 /\ RunLen(Drop(line, u), Space) >= 1

\* ------------------------------------------------------------------
\* The input lines the file may hold (raw, before rstrip)
SP == <<" ">>
L_EntryC1    == ENTRY_ \o SP \o <<"C", "1">>
L_EntryC2    == ENTRY_ \o SP \o SP \o <<"C", "2", "0">> \o SP \o <<"x">> \o <<"\n">>
L_EntryD1    == ENTRY_ \o SP \o <<"D", "1">>
L_Pathway    == PATHWAY_ \o SP \o <<"m", "1">> \o SP \o SP \o <<"G", " ", "y">> \o <<"\n">>
L_Pathway2   == PATHWAY_ \o SP \o <<"m", "1">> \o SP
L_Cont       == SP \o SP \o <<"m", "2">> \o SP \o <<"T", " ", "c">>
L_ContDup    == <<"\t">> \o <<"m", "1">> \o SP \o <<"G", " ", "y">>
L_Cont1      == SP \o <<"m", "3">> \o <<"\n">>
L_Section    == <<"N", "A", "M", "E">> \o SP \o <<"x">>
L_Bare       == <<"D", "B">>
L_Terminator == TERMINATOR \o <<"\n">>

Lines == {L_EntryC1, L_EntryC2, L_EntryD1, L_Pathway, L_Pathway2, L_Cont,
          L_ContDup, L_Cont1, L_Section, L_Bare, L_Terminator}

\* ------------------------------------------------------------------
\* compound_to_pathway[compound].append(pair) on a defaultdict(list)
DictIndex(d, k) ==
    IF \E j \in 1..Len(d) : d[j].compound = k
    THEN CHOOSE j \in 1..Len(d) : d[j].compound = k
    ELSE 0

\* faulty variant: the pair is filed under the first key of the dictionary
DictAppend_FirstKey(d, k, pair) ==
    IF d = <<>>
    THEN Append(d, [compound |-> k, pathways |-> <<pair>>])
    ELSE [d EXCEPT ![1].pathways = Append(@, pair)]

DictAppend(d, k, pair) ==
    LET j == DictIndex(d, k)
    IN  IF j = 0
        THEN Append(d, [compound |-> k, pathways |-> <<pair>>])
        ELSE [d EXCEPT ![j].pathways = Append(@, pair)]

\* the triples the two print loops write, in order
RECURSIVE Triples(_)
Triples(d) ==
    IF d = <<>> THEN <<>>
    ELSE [p \in 1..Len(d[1].pathways) |->
             <<d[1].compound, d[1].pathways[p][1], d[1].pathways[p][2]>>]
         \o Triples(Tail(d))

\* ------------------------------------------------------------------
InitParser ==
    /\ lines = <<>>
    /\ compound_to_pathway = <<>>
    /\ cur_compound = <<>>
    /\ in_pathways = FALSE
    /\ ppc = "read"
    /\ stdout = <<>>

\* "if matches := entry_re.search(line)": the captured id replaces the current compound
EntryBranch(line) ==
    /\ cur_compound' = entry_re(line)
    /\ UNCHANGED <<compound_to_pathway, in_pathways, ppc>>

\* faulty variant: "in_pathways = True" stands before the compound check
PathwayBranch_FlagFirst(line) ==
    IF cur_compound = <<>>
    THEN /\ in_pathways' = TRUE
         /\ ppc' = "exit"
         /\ UNCHANGED <<compound_to_pathway, cur_compound>>
    ELSE LET cols == re_split(line, 2)
         IN  /\ in_pathways' = TRUE
             /\ cur_compound' = cur_compound
             /\ IF Len(cols) = 3
                THEN /\ compound_to_pathway' =
                          DictAppend(compound_to_pathway, cur_compound, <<cols[2], cols[3]>>)
                     /\ ppc' = ppc
                ELSE /\ ppc' = "error"
                     /\ compound_to_pathway' = compound_to_pathway

\* faulty variant: the "if not cur_compound: sys.exit" check is missing
PathwayBranch_NoCompoundCheck(line) ==
    LET cols == re_split(line, 2)
    IN  /\ in_pathways' = TRUE
        /\ cur_compound' = cur_compound
        /\ IF Len(cols) = 3
           THEN /\ compound_to_pathway' =
                     DictAppend(compound_to_pathway, cur_compound, <<cols[2], cols[3]>>)
                /\ ppc' = ppc
           ELSE /\ ppc' = "error"
                /\ compound_to_pathway' = compound_to_pathway

\* "elif line.startswith("PATHWAY")"
PathwayBranch(line) ==
    IF cur_compound = <<>>
    THEN /\ ppc' = "exit"
         /\ UNCHANGED <<compound_to_pathway, cur_compound, in_pathways>>
    ELSE LET cols == re_split(line, 2)
         IN  /\ in_pathways' = TRUE
             /\ cur_compound' = cur_compound
             /\ IF Len(cols) = 3
                THEN /\ compound_to_pathway' =
                          DictAppend(compound_to_pathway, cur_compound, <<cols[2], cols[3]>>)
                     /\ ppc' = ppc
                ELSE /\ ppc' = "error"
                     /\ compound_to_pathway' = compound_to_pathway

\* faulty variant: a continuation line with the wrong field count is skipped
BlockBranch_SkipMalformed(line) ==
    IF section_re(line)
    THEN /\ in_pathways' = FALSE
         /\ UNCHANGED <<compound_to_pathway, cur_compound, ppc>>
    ELSE LET cols == re_split(strip(line), 1)
         IN  /\ UNCHANGED <<cur_compound, in_pathways, ppc>>
             /\ compound_to_pathway' =
                    IF Len(cols) = 2
                    THEN DictAppend(compound_to_pathway, cur_compound, <<cols[1], cols[2]>>)
                    ELSE compound_to_pathway

\* "elif in_pathways"
BlockBranch(line) ==
    IF section_re(line)
    THEN /\ in_pathways' = FALSE
         /\ UNCHANGED <<compound_to_pathway, cur_compound, ppc>>
    ELSE LET cols == re_split(strip(line), 1)
         IN  /\ UNCHANGED <<cur_compound, in_pathways>>
             /\ IF Len(cols) = 2
                THEN /\ compound_to_pathway' =
                          DictAppend(compound_to_pathway, cur_compound, <<cols[1], cols[2]>>)
                     /\ ppc' = ppc
                ELSE /\ ppc' = "error"
                     /\ compound_to_pathway' = compound_to_pathway

\* "elif line == "///""
TerminatorBranch ==
    /\ cur_compound' = <<>>
    /\ in_pathways' = FALSE
    /\ UNCHANGED <<compound_to_pathway, ppc>>

\* faulty variant: the triples are printed while the lines are read
ParseLine_Streaming(raw) ==
    LET line == rstrip(raw)
    IN
    /\ ppc = "read"
    /\ Len(lines) < MaxLines
    /\ UNCHANGED mvars
    /\ lines' = Append(lines, raw)
    /\ IF entry_re(line) # <<>> THEN EntryBranch(line)
       ELSE IF startswith(line, PATHWAY_) THEN PathwayBranch(line)
       ELSE IF in_pathways THEN BlockBranch(line)
       ELSE IF line = TERMINATOR THEN TerminatorBranch
       ELSE UNCHANGED <<compound_to_pathway, cur_compound, in_pathways, ppc>>
    /\ stdout' = Triples(compound_to_pathway')

\* one iteration of "for line in map(str.rstrip, args.file)"
ParseLine(raw) ==
    LET line == rstrip(raw)
    IN
    /\ ppc = "read"
    /\ Len(lines) < MaxLines
    /\ UNCHANGED mvars
    /\ lines' = Append(lines, raw)
    /\ stdout' = stdout
    /\ IF entry_re(line) # <<>> THEN EntryBranch(line)
       ELSE IF startswith(line, PATHWAY_) THEN PathwayBranch(line)
       ELSE IF in_pathways THEN BlockBranch(line)
       ELSE IF line = TERMINATOR THEN TerminatorBranch
       ELSE UNCHANGED <<compound_to_pathway, cur_compound, in_pathways, ppc>>

\* the file is exhausted: the for loop over the lines ends
EndOfFile ==
    /\ ppc = "read"
    /\ UNCHANGED mvars
    /\ ppc' = "print"
    /\ UNCHANGED <<lines, compound_to_pathway, cur_compound, in_pathways, stdout>>

\* one print(...) of the output loops
PrintTriple ==
    /\ ppc = "print"
    /\ UNCHANGED mvars
    /\ Len(stdout) < Len(Triples(compound_to_pathway))
    /\ stdout' = Append(stdout, Triples(compound_to_pathway)[Len(stdout) + 1])
    /\ UNCHANGED <<lines, compound_to_pathway, cur_compound, in_pathways, ppc>>

\* main returns
ParserDone ==
    /\ ppc = "print"
    /\ UNCHANGED mvars
    /\ Len(stdout) = Len(Triples(compound_to_pathway))
    /\ ppc' = "done"
    /\ UNCHANGED <<lines, compound_to_pathway, cur_compound, in_pathways, stdout>>

\* the parser has not been run
ParserOff ==
    /\ lines = <<>>
    /\ compound_to_pathway = <<>>
    /\ cur_compound = <<>>
    /\ in_pathways = FALSE
    /\ ppc = "off"
    /\ stdout = <<>>

NextParser ==
    \/ \E raw \in Lines : ParseLine(raw)
    \/ EndOfFile
    \/ PrintTriple
    \/ ParserDone

\* ==================================================================
\* mbryg.py

EMPTY == <<>>
CPD == <<"c", "p", "d", ":">>
M1 == <<"m", "1">>
M2 == <<"m", "2">>
PathwayIds == {M1, M2}
PathwayCols == {"Compound_ID", "Pathway_ID", "Pathway_Name"}

\* catalog records: mappings from attribute keys to text
R_NoKegg  == [abbreviation |-> <<"a">>, keggId |-> EMPTY]
R_Absent  == [abbreviation |-> <<"b">>]
R_Bare    == [abbreviation |-> <<"c">>, keggId |-> <<"C", "3", "1">>]
R_Prefix  == [abbreviation |-> <<"d">>, keggId |-> CPD \o <<"C", "2">>]
Records == {R_NoKegg, R_Absent, R_Bare, R_Prefix}

RECURSIVE SeqsUpTo(_, _)
SeqsUpTo(S, n) ==
    IF n = 0 THEN {<<>>}
    ELSE LET shorter == SeqsUpTo(S, n - 1)
         IN  shorter \cup {Append(q, x) : q \in shorter, x \in S}

\* the catalogs the run may face: one page or two, well-formed (only the last
\* page has an empty next) or with a next that points back to page 1
Page(rs, nxt) == [results |-> rs, next |-> nxt]
Upstreams ==
    {<<Page(rs, n1)>> : rs \in SeqsUpTo(Records, MaxRecs), n1 \in {0, 1}}
    \cup {<<Page(rs, 2), Page(<<R_Bare>>, n2)>> :
              rs \in SeqsUpTo(Records, MaxRecs), n2 \in {0, 1}}

\* faulty variant: the default of dict.get is a placeholder text
Get_DefaultUnknown(d, key) == IF key \in DOMAIN d THEN d[key] ELSE <<"?">>

\* dict.get(key, "")
Get(d, key) == IF key \in DOMAIN d THEN d[key] ELSE EMPTY

\* result[key] = value for the three pathway columns
SetCols(d, c, p, n) ==
    [f \in DOMAIN d \cup PathwayCols |->
        IF f = "Compound_ID" THEN c
        ELSE IF f = "Pathway_ID" THEN p
        ELSE IF f = "Pathway_Name" THEN n
        ELSE d[f]]

\* faulty variant: the path ids are visited last to first
RECURSIVE PathIds_Reversed(_)
PathIds_Reversed(m) ==
    IF m = <<>> THEN <<>>
    ELSE PathIds_Reversed(Tail(m)) \o [n \in 1..Len(m[1].ids) |-> m[1].ids[Len(m[1].ids) + 1 - n]]

\* the path ids in the order of the two nested for loops
RECURSIVE PathIds(_)
PathIds(m) == IF m = <<>> THEN <<>> ELSE m[1].ids \o PathIds(Tail(m))

\* what kmap.entries_link may return for one identifier
Stage1Results(id) ==
    { <<>>,
      <<[compound |-> id, ids |-> <<>>]>>,
      <<[compound |-> id, ids |-> <<M1>>]>>,
      <<[compound |-> id, ids |-> <<M1, M2>>]>>,
      <<[compound |-> id, ids |-> <<M1, M1>>]>>,
      <<[compound |-> id, ids |-> <<M1>>], [compound |-> Drop(id, Len(CPD)), ids |-> <<M1>>]>> }

\* what kegg_get may do: raise, return a non-mapping, a record without NAME,
\* a record with an empty NAME list, or a record with names
Stage2Results ==
    { [kind |-> "raise"], [kind |-> "nondict"], [kind |-> "dict"],
      [kind |-> "dict", NAME |-> <<>>],
      [kind |-> "dict", NAME |-> << <<"G">>, <<"g">> >>] }

InitMbryg ==
    /\ upstream \in Upstreams
    /\ to_stdout \in BOOLEAN
    /\ url = 1
    /\ fetches = <<>>
    /\ results = <<>>
    /\ fieldnames = {}
    /\ sink = <<>>
    /\ console = <<>>
    /\ i = 0
    /\ result = <<>>
    /\ kegg_id = EMPTY
    /\ pathways = <<>>
    /\ path_pos = 0
    /\ calls = <<>>
    /\ mpc = "start"
    /\ err = "none"

\* mbryg.py has not been run
MbrygOff ==
    /\ upstream = <<>>
    /\ to_stdout = FALSE
    /\ url = 0
    /\ fetches = <<>>
    /\ results = <<>>
    /\ fieldnames = {}
    /\ sink = <<>>
    /\ console = <<>>
    /\ i = 0
    /\ result = <<>>
    /\ kegg_id = EMPTY
    /\ pathways = <<>>
    /\ path_pos = 0
    /\ calls = <<>>
    /\ mpc = "off"
    /\ err = "none"

\* print(text): standard output is the sink stream when no -o was given
SinkAfterPrint(text) ==
    IF to_stdout THEN Append(sink, [kind |-> "text", text |-> text]) ELSE sink
ConsoleAfterPrint(text) ==
    IF to_stdout THEN console ELSE Append(console, text)

\* csv.DictWriter.writerow(d) with the default extrasaction="raise" and restval=""
RowOf(d) ==
    [kind |-> "row", rec |-> i,
     cells |-> [f \in fieldnames |-> IF f \in DOMAIN d THEN d[f] ELSE EMPTY]]

\* "print(args.metabolite_name)" and the set-up of url and results
Start ==
    /\ mpc = "start"
    /\ UNCHANGED pvars
    /\ sink' = SinkAfterPrint("name")
    /\ console' = ConsoleAfterPrint("name")
    /\ mpc' = "fetch"
    /\ UNCHANGED <<upstream, to_stdout, url, fetches, results, fieldnames, i,
                   result, kegg_id, pathways, path_pos, calls, err>>

\* faulty variant: the loop body lacks the break after a page is read, so the
\* loop goes round for as long as the page names a next locator
FetchPages_FollowNext ==
    /\ mpc = "fetch"
    /\ Len(fetches) < MaxFetches
    /\ UNCHANGED pvars
    /\ UNCHANGED <<upstream, to_stdout, fieldnames, sink, console, i, result,
                   kegg_id, pathways, path_pos, calls>>
    /\ IF url # 0
       THEN /\ fetches' = Append(fetches, url)
            /\ \E status \in {200, 500} :
                 IF status # 200
                 THEN /\ mpc' = "exit"
                      /\ err' = "Failed to get"
                      /\ UNCHANGED <<results, url>>
                 ELSE /\ results' = results \o upstream[url].results
                      /\ url' = upstream[url].next
                      /\ mpc' = "fetch"
                      /\ err' = err
       ELSE /\ mpc' = "check"
            /\ UNCHANGED <<fetches, results, url, err>>

\* the "while True" loop: its body ends with break on both branches
FetchPages ==
    /\ mpc = "fetch"
    /\ UNCHANGED pvars
    /\ UNCHANGED <<upstream, to_stdout, fieldnames, sink, console, i, result,
                   kegg_id, pathways, path_pos, calls>>
    /\ IF url # 0
       THEN /\ fetches' = Append(fetches, url)
            /\ \E status \in {200, 500} :
                 IF status # 200
                 THEN /\ mpc' = "exit"
                      /\ err' = "Failed to get"
                      /\ UNCHANGED <<results, url>>
                 ELSE /\ results' = results \o upstream[url].results
                      /\ url' = upstream[url].next
                      /\ mpc' = "check"
                      /\ err' = err
       ELSE /\ mpc' = "check"
            /\ UNCHANGED <<fetches, results, url, err>>

\* faulty variant: the header is written before the results are tested
WriteHeader_HeaderFirst ==
    /\ mpc = "check"
    /\ UNCHANGED pvars
    /\ UNCHANGED <<upstream, to_stdout, url, fetches, results, console, result,
                   kegg_id, pathways, path_pos, calls>>
    /\ sink' = Append(sink, [kind |-> "header", fields |-> PathwayCols])
    /\ IF results = <<>>
       THEN /\ mpc' = "exit"
            /\ err' = "Unable to find"
            /\ UNCHANGED <<fieldnames, i>>
       ELSE /\ fieldnames' = DOMAIN results[1] \cup PathwayCols
            /\ i' = 1
            /\ mpc' = "for"
            /\ err' = err

\* "if not results: sys.exit", then the DictWriter and its header
WriteHeader ==
    /\ mpc = "check"
    /\ UNCHANGED pvars
    /\ UNCHANGED <<upstream, to_stdout, url, fetches, results, console, result,
                   kegg_id, pathways, path_pos, calls>>
    /\ IF results = <<>>
       THEN /\ mpc' = "exit"
            /\ err' = "Unable to find"
            /\ UNCHANGED <<fieldnames, sink, i>>
       ELSE /\ fieldnames' = DOMAIN results[1] \cup PathwayCols
            /\ sink' = Append(sink, [kind |-> "header",
                                     fields |-> DOMAIN results[1] \cup PathwayCols])
            /\ i' = 1
            /\ mpc' = "for"
            /\ err' = err

\* writer.writerow(d) on the stream content snk, then the next iteration of
\* the record loop ("continue")
WriteRowAndContinue(snk, d) ==
    IF DOMAIN d \subseteq fieldnames
    THEN /\ sink' = Append(snk, RowOf(d))
         /\ i' = i + 1
         /\ mpc' = "for"
         /\ err' = err
    ELSE /\ sink' = snk
         /\ mpc' = "error"
         /\ err' = "ValueError"
         /\ i' = i

\* the head of "for result in results" up to the try statement
NextRecord ==
    /\ mpc = "for"
    /\ UNCHANGED pvars
    /\ UNCHANGED <<upstream, to_stdout, url, fetches, results, fieldnames,
                   console, pathways, path_pos, calls>>
    /\ IF i > Len(results)
       THEN /\ mpc' = "done"
            /\ UNCHANGED <<sink, i, result, kegg_id, err>>
       ELSE LET id == Get(results[i], "keggId")
                d  == SetCols(results[i], EMPTY, EMPTY, EMPTY)
            IN  /\ result' = d
                /\ IF id = EMPTY
                   THEN /\ kegg_id' = id
                        /\ WriteRowAndContinue(sink, d)
                   ELSE /\ kegg_id' = IF startswith(id, CPD) THEN id ELSE CPD \o id
                        /\ mpc' = "stage1"
                        /\ UNCHANGED <<sink, i, err>>

\* faulty variant: the except branch continues without writing the row
Stage1_DropOnFailure ==
    /\ mpc = "stage1"
    /\ UNCHANGED pvars
    /\ calls' = Append(calls, [fn |-> "entries_link", arg |-> kegg_id, rec |-> i])
    /\ UNCHANGED <<upstream, to_stdout, url, fetches, results, fieldnames,
                   result, kegg_id>>
    /\ \/ /\ console' = ConsoleAfterPrint("KEGG request failed")
          /\ sink' = SinkAfterPrint("KEGG request failed")
          /\ i' = i + 1
          /\ mpc' = "for"
          /\ UNCHANGED <<pathways, path_pos, err>>
       \/ \E m \in Stage1Results(kegg_id) :
            /\ pathways' = m
            /\ path_pos' = 1
            /\ mpc' = "stage2"
            /\ UNCHANGED <<sink, console, i, err>>

\* the try statement around kmap.entries_link
Stage1 ==
    /\ mpc = "stage1"
    /\ UNCHANGED pvars
    /\ calls' = Append(calls, [fn |-> "entries_link", arg |-> kegg_id, rec |-> i])
    /\ UNCHANGED <<upstream, to_stdout, url, fetches, results, fieldnames,
                   result, kegg_id>>
    /\ \/ /\ console' = ConsoleAfterPrint("KEGG request failed")
          /\ WriteRowAndContinue(SinkAfterPrint("KEGG request failed"), result)
          /\ UNCHANGED <<pathways, path_pos>>
       \/ \E m \in Stage1Results(kegg_id) :
            /\ pathways' = m
            /\ path_pos' = 1
            /\ mpc' = "stage2"
            /\ UNCHANGED <<sink, console, i, err>>

\* one iteration of the nested loops over the path ids (kegg_get and the
\* conditional writerow), or the end of the loops
Stage2 ==
    /\ mpc = "stage2"
    /\ UNCHANGED pvars
    /\ UNCHANGED <<upstream, to_stdout, url, fetches, results, fieldnames,
                   console, kegg_id, pathways>>
    /\ IF path_pos > Len(PathIds(pathways))
       THEN /\ i' = i + 1
            /\ mpc' = "for"
            /\ UNCHANGED <<sink, result, path_pos, calls, err>>
       ELSE LET path_id == PathIds(pathways)[path_pos]
            IN  /\ calls' = Append(calls, [fn |-> "kegg_get", arg |-> path_id, rec |-> i])
                /\ i' = i
                /\ \E info \in Stage2Results :
                     IF info.kind = "raise"
                     THEN /\ mpc' = "error"
                          /\ err' = "kegg_get raised"
                          /\ UNCHANGED <<sink, result, path_pos>>
                     ELSE IF info.kind = "dict" /\ "NAME" \in DOMAIN info
                     THEN IF info.NAME = <<>>
                          THEN /\ result' = SetCols(result, kegg_id, path_id,
                                                    result["Pathway_Name"])
                               /\ mpc' = "error"
                               /\ err' = "IndexError"
                               /\ UNCHANGED <<sink, path_pos>>
                          ELSE LET d == SetCols(result, kegg_id, path_id, info.NAME[1])
                               IN  /\ result' = d
                                   /\ IF DOMAIN d \subseteq fieldnames
                                      THEN /\ sink' = Append(sink, RowOf(d))
                                           /\ path_pos' = path_pos + 1
                                           /\ UNCHANGED <<mpc, err>>
                                      ELSE /\ mpc' = "error"
                                           /\ err' = "ValueError"
                                           /\ UNCHANGED <<sink, path_pos>>
                     ELSE /\ path_pos' = path_pos + 1
                          /\ UNCHANGED <<sink, result, mpc, err>>

NextMbryg ==
    \/ Start
    \/ FetchPages
    \/ WriteHeader
    \/ NextRecord
    \/ Stage1
    \/ Stage2

\* a run of get_compound_pathways.py
ParserRun == InitParser /\ MbrygOff
SpecParser == ParserRun /\ [][NextParser]_vars

\* a run of mbryg.py
MbrygRun == InitMbryg /\ ParserOff
SpecMbryg == MbrygRun /\ [][NextMbryg]_vars

\* a run of mbryg.py that is not abandoned: the interpreter executes the next
\* statement of main whenever there is one
SpecMbrygFair == MbrygRun /\ [][NextMbryg]_vars /\ WF_vars(NextMbryg)

\* ------------------------------------------------------------------
\* A run of the parser on files made of the five lines of the worked example
T_C00031     == <<"C", "0", "0", "0", "3", "1">>
T_C00002     == <<"C", "0", "0", "0", "0", "2">>
T_map00010   == <<"m", "a", "p", "0", "0", "0", "1", "0">>
T_map00020   == <<"m", "a", "p", "0", "0", "0", "2", "0">>
T_Glycolysis == <<"G", "l", "y", "c", "o", "l", "y", "s", "i", "s">>
T_TCA_cycle  == <<"T", "C", "A", " ", "c", "y", "c", "l", "e">>
NL == <<"\n">>
S_Entry1     == ENTRY_ \o SP \o T_C00031 \o NL
S_Pathway    == PATHWAY_ \o SP \o T_map00010 \o SP \o T_Glycolysis \o NL
S_Cont       == SP \o SP \o T_map00020 \o SP \o T_TCA_cycle \o NL
S_Entry2     == ENTRY_ \o SP \o T_C00002 \o NL
S_Terminator == TERMINATOR
ScenarioLines == {S_Entry1, S_Pathway, S_Cont, S_Entry2, S_Terminator}
ScenarioFile == <<S_Entry1, S_Pathway, S_Cont, S_Entry2, S_Terminator>>

NextScenario ==
    \/ \E raw \in ScenarioLines : ParseLine(raw)
    \/ EndOfFile
    \/ PrintTriple
    \/ ParserDone

SpecScenario == ParserRun /\ [][NextScenario]_vars

\* ==================================================================
\* Properties of the flat-record parser (SpecParser)

\* the line consumed by the current step, as the loop body sees it
Reading == lines' # lines
ThisLine == rstrip(lines'[Len(lines')])
Aborted == ppc \in {"exit", "error"}

\* the compound id of the last ENTRY line (ENTRY, whitespace, C and digits) of ls
RECURSIVE NearestEntry(_)
NearestEntry(ls) ==
    IF ls = <<>> THEN <<>>
    ELSE IF entry_re(rstrip(ls[Len(ls)])) # <<>>
         THEN entry_re(rstrip(ls[Len(ls)]))
         ELSE NearestEntry(Take(ls, Len(ls) - 1))

\* the number of whitespace-separated tokens of s
RECURSIVE Tokens(_)
Tokens(s) ==
    IF s = <<>> THEN 0
    ELSE IF Head(s) \in Space THEN Tokens(Tail(s))
    ELSE 1 + Tokens(Drop(s, RunLenNot(s, Space)))

\* C3: whenever a line adds a pathway pair, the pair is filed under the
\* compound id of the nearest preceding ENTRY line, and such a line exists.
C3_Grouping ==
    [][\A j \in 1..Len(compound_to_pathway') :
          (j > Len(compound_to_pathway) \/ compound_to_pathway'[j] # compound_to_pathway[j])
          => /\ NearestEntry(lines) # <<>>
             /\ compound_to_pathway'[j].compound = NearestEntry(lines)]_vars

\* two ENTRY lines with different ids were read and the second one got a pair
C3_Witness ==
    /\ Len(compound_to_pathway) = 2
    /\ compound_to_pathway[2].compound = NearestEntry(lines)
    /\ compound_to_pathway[1].compound # NearestEntry(lines)

\* C4 (as claimed): a '///' line clears the current compound and the
\* pathway-block flag in every parser state, and the run goes on.
C4_TerminatorAlwaysClears ==
    [][(Reading /\ ThisLine = TERMINATOR)
       => (cur_compound' = <<>> /\ in_pathways' = FALSE /\ ppc' = "read")]_vars

\* C8: a PATHWAY header line read while no compound is current ends the run
\* with sys.exit, records nothing, and no step follows an aborted run.
C8_PathwayWithoutCompoundFatal ==
    [][/\ ~Aborted
       /\ (Reading /\ startswith(ThisLine, PATHWAY_) /\ cur_compound = <<>>)
          => (ppc' = "exit" /\ compound_to_pathway' = compound_to_pathway
              /\ stdout' = <<>>)]_vars

\* the run was aborted by a PATHWAY line that directly follows a '///' line
C8_Witness ==
    /\ ppc = "exit"
    /\ Len(lines) >= 3
    /\ rstrip(lines[Len(lines) - 1]) = TERMINATOR
    /\ startswith(rstrip(lines[Len(lines)]), PATHWAY_)

\* C9: a PATHWAY header line with fewer than three tokens, and a line inside a
\* pathway block that is no ENTRY line, PATHWAY header or section header
\* and has fewer than two tokens, abort the run; nothing is recorded for the
\* line and no step follows an aborted run.
C9_WrongFieldCountFatal ==
    [][/\ ~Aborted
       /\ (Reading /\ startswith(ThisLine, PATHWAY_) /\ Tokens(ThisLine) < 3)
          => (ppc' \in {"exit", "error"} /\ compound_to_pathway' = compound_to_pathway)
       /\ (/\ Reading /\ in_pathways
           /\ entry_re(ThisLine) = <<>> /\ ~startswith(ThisLine, PATHWAY_)
           /\ ~section_re(ThisLine) /\ Tokens(ThisLine) < 2)
          => (ppc' = "error" /\ compound_to_pathway' = compound_to_pathway)]_vars

\* a one-token continuation line inside a pathway block raised the assertion
C9_Witness ==
    /\ ppc = "error"
    /\ compound_to_pathway # <<>>
    /\ ~startswith(rstrip(lines[Len(lines)]), PATHWAY_)
    /\ Tokens(rstrip(lines[Len(lines)])) = 1

\* C10 (as claimed): inside a pathway block every line that starts with
\* uppercase letters followed by whitespace leaves the block and adds no pair.
C10_SectionHeaderLeavesBlock ==
    [][(Reading /\ in_pathways /\ section_re(ThisLine))
       => (in_pathways' = FALSE /\ compound_to_pathway' = compound_to_pathway)]_vars

\* ==================================================================
\* Properties of mbryg.py (SpecMbryg)

IsRow(x) == x.kind = "row"
\* positions in the sink of the rows written for record r
RowsOf(r) == {n \in 1..Len(sink) : IsRow(sink[n]) /\ sink[n].rec = r}
EmptyCols(row) ==
    /\ row.cells["Compound_ID"] = EMPTY
    /\ row.cells["Pathway_ID"] = EMPTY
    /\ row.cells["Pathway_Name"] = EMPTY
\* the records whose iteration of the record loop has ended
Finished == IF mpc \in {"for", "stage1", "stage2", "done"} THEN 1..(i - 1) ELSE {}
NoKeggId(r) == "keggId" \notin DOMAIN r \/ r["keggId"] = EMPTY

\* C1 (as claimed): every record whose iteration has ended has at least one
\* row; it has a row with empty pathway columns iff it has no row with a
\* pathway, and then only one.
C1_NoDrop ==
    \A r \in Finished :
        /\ RowsOf(r) # {}
        /\ Cardinality({n \in RowsOf(r) : EmptyCols(sink[n])}) <= 1
        /\ (\E n \in RowsOf(r) : EmptyCols(sink[n]))
           <=> ~(\E n \in RowsOf(r) : ~EmptyCols(sink[n]))

\* C2 (as claimed): on a chain of pages where only the last has an empty
\* next, after the fetch loop every page was fetched in turn and results is
\* the concatenation of all pages; no fetch is issued for an empty locator.
WellFormedChain(u) ==
    \A p \in 1..Len(u) : u[p].next = IF p = Len(u) THEN 0 ELSE p + 1
RECURSIVE AllResults(_)
AllResults(u) == IF u = <<>> THEN <<>> ELSE u[1].results \o AllResults(Tail(u))
C2_PaginationComplete ==
    /\ \A n \in 1..Len(fetches) : fetches[n] # 0
    /\ (mpc = "check" /\ WellFormedChain(upstream))
       => /\ fetches = [p \in 1..Len(upstream) |-> p]
          /\ results = AllResults(upstream)

\* C5 (as claimed): the rows written for one record have pairwise distinct
\* Pathway_ID values.
C5_Dedup ==
    \A a, b \in 1..Len(sink) :
        (a < b /\ IsRow(sink[a]) /\ IsRow(sink[b]) /\ sink[a].rec = sink[b].rec)
        => sink[a].cells["Pathway_ID"] # sink[b].cells["Pathway_ID"]

\* C6 (as claimed): a failing stage-2 lookup (the call raises, or the record
\* has no first name) never aborts the run.
C6_Stage2FailureNotFatal ==
    ~(mpc = "error" /\ err \in {"kegg_get raised", "IndexError"})

\* the step appends one item to the sink: a row of record r with the three
\* pathway columns empty, the only row of that record
OneEmptyRowAdded(r) ==
    /\ Len(sink') = Len(sink) + 1
    /\ SubSeq(sink', 1, Len(sink)) = sink
    /\ {n \in 1..Len(sink') : IsRow(sink'[n]) /\ sink'[n].rec = r} = {Len(sink')}
    /\ EmptyCols(sink'[Len(sink')])

\* C7 (as claimed): the iteration of a record without keggId issues no lookup
\* and writes exactly one row, whose three pathway columns are empty.
C7_EmptyIdOneRow ==
    [][(mpc = "for" /\ i <= Len(results) /\ NoKeggId(results[i]))
       => /\ calls' = calls
          /\ OneEmptyRowAdded(i)
          /\ i' = i + 1]_vars

\* C7 (amended): the iteration of a record without keggId issues no lookup;
\* when every attribute key of the record is a column of the header it writes
\* exactly one row, whose three pathway columns are empty, and otherwise the
\* write raises ValueError and the run ends without a row for the record.
C7_EmptyIdNoLookup ==
    [][(mpc = "for" /\ i <= Len(results) /\ NoKeggId(results[i]))
       => /\ calls' = calls
          /\ IF DOMAIN results[i] \subseteq fieldnames
             THEN /\ OneEmptyRowAdded(i)
                  /\ i' = i + 1
             ELSE /\ sink' = sink
                  /\ mpc' = "error" /\ err' = "ValueError"]_vars

\* a run over a record with an empty keggId and one without the key ended
\* with one empty row for each and no lookup
C7_Witness ==
    /\ mpc = "done"
    /\ Len(results) = 2
    /\ "keggId" \in DOMAIN results[1]
    /\ results[1]["keggId"] = EMPTY
    /\ "keggId" \notin DOMAIN results[2]
    /\ calls = <<>>
    /\ \A r \in 1..2 : Cardinality(RowsOf(r)) = 1

\* C11 (as claimed): a record whose attribute keys differ from the first
\* record's, by an extra key or by a missing one, gets no row, and its
\* iteration never ends normally (the run aborts instead).
C11_ColumnMismatchFatal ==
    \A r \in 1..Len(results) :
        DOMAIN results[r] # DOMAIN results[1]
        => (RowsOf(r) = {} /\ r \notin Finished)

\* C12: a page fetch either fails, and then the run ends with "Failed to get"
\* naming the locator just requested, or delivers its page; an empty result
\* list after the fetch ends the run with "Unable to find" (naming the search
\* term); in a run ended this way the sink holds no header and no row and no
\* pathway lookup was issued.
C12_FetchErrorsAbortEarly ==
    /\ [](mpc = "exit"
          => /\ \A n \in 1..Len(sink) : sink[n].kind \notin {"header", "row"}
             /\ calls = <<>>
             /\ err \in {"Failed to get", "Unable to find"}
             /\ err = "Failed to get" => (fetches # <<>> /\ url = fetches[Len(fetches)])
             /\ err = "Unable to find" => results = <<>>)
    /\ [][/\ mpc = "fetch"
             => \/ mpc' = "exit" /\ err' = "Failed to get" /\ sink' = sink
                \/ mpc' = "check" /\ results' = results \o upstream[url].results
          /\ (mpc = "check" /\ results = <<>>)
             => (mpc' = "exit" /\ err' = "Unable to find" /\ sink' = sink)]_vars

\* the first page was fetched, is empty, and the run ended with "Unable to find"
C12_Witness ==
    /\ mpc = "exit"
    /\ err = "Unable to find"
    /\ fetches = <<1>>
    /\ upstream[1].results = <<>>

\* C13 (as claimed): the five-line example is parsed without error and the
\* run prints exactly (C00031, map00010, Glycolysis) and
\* (C00031, map00020, TCA cycle), in that order.
C13_ScenarioTriples ==
    lines = ScenarioFile
    => /\ ppc \notin {"exit", "error"}
       /\ ppc = "done"
          => stdout = << <<T_C00031, T_map00010, T_Glycolysis>>,
                         <<T_C00031, T_map00020, T_TCA_cycle>> >>

\* C14 (as claimed): no (compound id, pathway id) pair is printed twice in
\* one run.
C14_PrintedOnce ==
    \A a, b \in 1..Len(stdout) :
        a < b => <<stdout[a][1], stdout[a][2]>> # <<stdout[b][1], stdout[b][2]>>

\* C15 (as claimed): after an ENTRY line that carries a compound id the
\* current compound is that id and the pathway-block flag is off.
C15_EntryLeavesBlock ==
    [][(Reading /\ entry_re(ThisLine) # <<>>)
       => (cur_compound' = entry_re(ThisLine) /\ in_pathways' = FALSE)]_vars

\* the items the step appends to the sink
Appended == SubSeq(sink', Len(sink) + 1, Len(sink'))
\* the step appends exactly one row to the sink, a row of record r with the
\* three pathway columns empty, and record r had no row before
OneEmptyRowWritten(r) ==
    /\ Len(sink') >= Len(sink)
    /\ SubSeq(sink', 1, Len(sink)) = sink
    /\ RowsOf(r) = {}
    /\ Cardinality({n \in 1..Len(Appended) : IsRow(Appended[n])}) = 1
    /\ \A n \in 1..Len(Appended) :
          IsRow(Appended[n]) => (Appended[n].rec = r /\ EmptyCols(Appended[n]))
\* the step is the stage-1 lookup of the current record and the lookup raises
Stage1Raises == mpc = "stage1" /\ mpc' # "stage2"
\* the step issues the one stage-1 call of record i and no other lookup
OnlyStage1Call ==
    /\ Len(calls') = Len(calls) + 1
    /\ SubSeq(calls', 1, Len(calls)) = calls
    /\ calls'[Len(calls')].fn = "entries_link"
    /\ \A n \in 1..Len(calls) : calls[n].rec # i

\* C16 (as claimed): when the stage-1 lookup of a record raises, exactly one
\* row with empty pathway columns is written for the record, the lookup is the
\* only one issued for it, and the loop goes on with the next record.
C16_Stage1FailureOneRow ==
    [][Stage1Raises
       => (OneEmptyRowWritten(i) /\ OnlyStage1Call /\ i' = i + 1 /\ mpc' = "for")]_vars

\* C16 (amended): when the stage-1 lookup of a record raises, the lookup is
\* the only one issued for the record; when every attribute key of the record
\* is a column of the header, exactly one row with empty pathway columns is
\* written for it and the loop goes on with the next record; otherwise the
\* write raises ValueError and the run ends without a row for the record.
C16_Stage1FailureRecovered ==
    [][Stage1Raises
       => /\ OnlyStage1Call
          /\ IF DOMAIN results[i] \subseteq fieldnames
             THEN OneEmptyRowWritten(i) /\ i' = i + 1 /\ mpc' = "for"
             ELSE /\ mpc' = "error" /\ err' = "ValueError"
                  /\ \A n \in 1..Len(sink') : IsRow(sink'[n]) => sink'[n].rec # i]_vars

\* the run ended normally; the stage-1 lookup of the first record raised (one
\* lookup, one empty row) and the second record was processed after it
C16_Witness ==
    /\ mpc = "done"
    /\ Len(results) = 2
    /\ {n \in 1..Len(calls) : calls[n].rec = 1} = {1}
    /\ calls[1].fn = "entries_link"
    /\ Cardinality(RowsOf(1)) = 1
    /\ \A n \in RowsOf(1) : EmptyCols(sink[n])
    /\ RowsOf(2) # {}

\* the path ids of a stage-1 mapping in the order it yields them
RECURSIVE YieldOrder(_)
YieldOrder(m) == IF m = <<>> THEN <<>> ELSE m[1].ids \o YieldOrder(Tail(m))
\* a can be obtained from b by deleting elements
RECURSIVE IsSubseq(_, _)
IsSubseq(a, b) ==
    IF a = <<>> THEN TRUE
    ELSE IF b = <<>> THEN FALSE
    ELSE IF Head(a) = Head(b) THEN IsSubseq(Tail(a), Tail(b))
    ELSE IsSubseq(a, Tail(b))
\* the rows of the sink, in order
RECURSIVE RowsIn(_)
RowsIn(s) ==
    IF s = <<>> THEN <<>>
    ELSE (IF IsRow(Head(s)) THEN <<Head(s)>> ELSE <<>>) \o RowsIn(Tail(s))
\* the Pathway_ID values of the rows of record r, in the order written
PathwayIdsWritten(r) ==
    LET rows == RowsIn(sink)
        RECURSIVE ids(_)
        ids(n) == IF n > Len(rows) THEN <<>>
                  ELSE (IF rows[n].rec = r THEN <<rows[n].cells["Pathway_ID"]>> ELSE <<>>)
                       \o ids(n + 1)
    IN  ids(1)

\* C17: records are processed one at a time in catalog order: every lookup
\* and every row a step adds belongs to the current record, the loop position
\* only moves forward by one, the rows and the lookups are grouped by record
\* in catalog order, each row carries the attributes of its catalog record,
\* and the rows of the record being resolved carry its path ids in the order
\* the resolver yielded them.
C17_Sequential ==
    /\ [](/\ \A a, b \in 1..Len(RowsIn(sink)) :
                a < b => RowsIn(sink)[a].rec <= RowsIn(sink)[b].rec
          /\ \A a, b \in 1..Len(calls) : a < b => calls[a].rec <= calls[b].rec
          /\ \A n \in 1..Len(sink) :
                IsRow(sink[n])
                => /\ sink[n].rec \in 1..Len(results) /\ sink[n].rec <= i
                   /\ \A f \in DOMAIN results[sink[n].rec] \cap fieldnames :
                         sink[n].cells[f] = results[sink[n].rec][f]
          /\ mpc = "stage2"
             => IsSubseq(PathwayIdsWritten(i),
                         SubSeq(YieldOrder(pathways), 1, path_pos - 1)))
    /\ [][/\ i' \in {i, i + 1}
          /\ \A n \in (Len(calls) + 1)..Len(calls') : calls'[n].rec = i
          /\ \A n \in (Len(sink) + 1)..Len(sink') :
                IsRow(sink'[n]) => sink'[n].rec = i]_vars

\* a finished run over two records: two rows for the first, in the order
\* yielded, then rows for the second
C17_Witness ==
    /\ mpc = "done"
    /\ Len(results) = 2
    /\ PathwayIdsWritten(1) = <<M1, M2>>
    /\ RowsOf(2) # {}
    /\ \E n \in 1..Len(calls) : calls[n].rec = 2

\* C18 (as claimed): whatever the sink is, the first item written to it is
\* the header, and every later item is a data row over the header's columns.
C18_SinkHeaderThenRows ==
    sink # <<>>
    => /\ sink[1].kind = "header"
       /\ \A n \in 2..Len(sink) :
             IsRow(sink[n]) /\ DOMAIN sink[n].cells = sink[1].fields

\* C19: whenever the parser is inside a pathway block the current compound is
\* not empty, and no pair is recorded or printed under an empty compound id.
C19_BlockHasCompound ==
    /\ in_pathways => cur_compound # <<>>
    /\ \A j \in 1..Len(compound_to_pathway) : compound_to_pathway[j].compound # <<>>
    /\ \A n \in 1..Len(stdout) : stdout[n][1] # <<>>

\* the parser is inside a pathway block of a record that follows a '///' line
C19_Witness ==
    /\ in_pathways
    /\ cur_compound # <<>>
    /\ \E n \in 1..Len(lines) : rstrip(lines[n]) = TERMINATOR
    /\ compound_to_pathway # <<>>

\* C20: triples are printed only after the last line was read, and a run
\* that was aborted by a structural error has printed nothing.
C20_AllOrNothing ==
    /\ [](/\ (ppc \in {"exit", "error"}) => stdout = <<>>
          /\ stdout # <<>> => ppc \in {"print", "done"})
    /\ [][/\ stdout' # stdout => (ppc = "print" /\ lines' = lines)
          /\ ppc \in {"print", "done"} => (lines' = lines /\ ppc' \in {"print", "done"})]_vars

\* the run was aborted after pairs of a well-formed record had been recorded
C20_Witness ==
    /\ ppc \in {"exit", "error"}
    /\ compound_to_pathway # <<>>
    /\ stdout = <<>>

\* ------------------------------------------------------------------
\* the locator the last page read names as its successor was read before
PointsBack == url # 0 /\ \E f \in 1..Len(fetches) : fetches[f] = url

\* the page-fetch loop has been left
PastFetchLoop == mpc \notin {"start", "fetch"}

\* C21: the page-fetch loop of main terminates after finitely many fetches
\* whatever the upstream answers, also when the next locator of a page points
\* back to a locator already read: no locator is ever fetched twice, the loop
\* is never entered again once it has been left, and every run that is not
\* abandoned leaves it
C21_FetchLoopTerminates ==
    /\ [](\A a, b \in 1..Len(fetches) : fetches[a] = fetches[b] => a = b)
    /\ [][PastFetchLoop => PastFetchLoop']_vars
    /\ <>PastFetchLoop

\* the one page read names itself as the next page, and the loop has ended
C21_Witness ==
    /\ PastFetchLoop
    /\ PointsBack
    /\ upstream[1].next = 1
    /\ fetches = <<1>>

====
